---- MODULE Spec2Model ----
(***************************************************************************)
(* Model of RobloxScraper (src/scraper.py): the structured lookup, the     *)
(* profile-page fallback, and the extraction helpers _extract_username,    *)
(* _extract_followers and _parse_number.                                   *)
(*                                                                         *)
(* Text is a sequence of one-character strings.  Python values that can    *)
(* be of several types are tagged records (None, IntV, StrV, ...).         *)
(***************************************************************************)
EXTENDS Integers, Sequences, FiniteSets, TLC

VARIABLES
    pn_text,    \* argument of _parse_number
    pn_out,     \* its outcome: NotRun, Returned(n) or Raised(exception)
    ef_soup,    \* argument of _extract_followers
    ef_out,     \* its outcome: NotRun or a FollowersOutcome
    eu_soup,    \* argument of _extract_username
    eu_out,     \* its outcome: NotRun or the record of UsernameFrom
    pc,         \* where get_user_followers stands: idle, identity, followers,
                \* sleep, retry, profile (waiting for that call) or done
    user_id,    \* its argument
    username,   \* local username of get_user_followers (line 44)
    followers,  \* local followers of get_user_followers (line 45)
    id_resp,    \* outcome of the identity call
    fc_resp,    \* outcome of the first follower-count call
    retry_resp, \* outcome of the follower-count retry
    page_resp,  \* outcome of the profile-page fetch
    requests,   \* the outbound requests issued so far, in order
    sleeps,     \* number of time.sleep(2) calls so far
    result      \* the record returned

parse_vars == <<pn_text, pn_out>>
followers_vars == <<ef_soup, ef_out>>
username_vars == <<eu_soup, eu_out>>
lookup_vars == <<pc, user_id, username, followers, id_resp, fc_resp,
                 retry_resp, page_resp, requests, sleeps, result>>

vars == <<parse_vars, followers_vars, username_vars, lookup_vars>>

----------------------------------------------------------------------------
(* Python values *)

None == [t |-> "none"]
Absent == [t |-> "absent"]
IntV(n) == [t |-> "int", i |-> n]
StrV(s) == [t |-> "str", s |-> s]

NotRun == [o |-> "not_run"]
Returned(v) == [o |-> "return", v |-> v]
Raised(e) == [o |-> "raise", e |-> e]

----------------------------------------------------------------------------
(* Text helpers: str.strip, str.lower, str.endswith, int() *)

Digits == {"0", "1", "2", "3", "4", "5", "6", "7", "8", "9"}

DigitVal ==
    [c \in Digits |->
        CASE c = "0" -> 0 [] c = "1" -> 1 [] c = "2" -> 2 [] c = "3" -> 3
          [] c = "4" -> 4 [] c = "5" -> 5 [] c = "6" -> 6 [] c = "7" -> 7
          [] c = "8" -> 8 [] c = "9" -> 9]

ToLower ==
    "A" :> "a" @@ "B" :> "b" @@ "C" :> "c" @@ "D" :> "d" @@ "E" :> "e" @@
    "F" :> "f" @@ "G" :> "g" @@ "H" :> "h" @@ "I" :> "i" @@ "J" :> "j" @@
    "K" :> "k" @@ "L" :> "l" @@ "M" :> "m" @@ "N" :> "n" @@ "O" :> "o" @@
    "P" :> "p" @@ "Q" :> "q" @@ "R" :> "r" @@ "S" :> "s" @@ "T" :> "t" @@
    "U" :> "u" @@ "V" :> "v" @@ "W" :> "w" @@ "X" :> "x" @@ "Y" :> "y" @@
    "Z" :> "z"

LowerChar(c) == IF c \in DOMAIN ToLower THEN ToLower[c] ELSE c

Lower(s) == [i \in 1..Len(s) |-> LowerChar(s[i])]

Whitespace == {" "}

RECURSIVE LStrip(_)
LStrip(s) ==
    IF s # <<>> /\ Head(s) \in Whitespace THEN LStrip(Tail(s)) ELSE s

RECURSIVE RStrip(_)
RStrip(s) ==
    IF s # <<>> /\ s[Len(s)] \in Whitespace
    THEN RStrip(SubSeq(s, 1, Len(s) - 1))
    ELSE s

Strip(s) == RStrip(LStrip(s))

EndsWith(s, suffix) ==
    /\ Len(suffix) <= Len(s)
    /\ SubSeq(s, Len(s) - Len(suffix) + 1, Len(s)) = suffix

StartsWithAt(s, i, lit) ==
    /\ i + Len(lit) - 1 <= Len(s)
    /\ SubSeq(s, i, i + Len(lit) - 1) = lit

Contains(s, lit) == \E i \in 1..(Len(s) + 1) : StartsWithAt(s, i, lit)

Rep(c, n) == [i \in 1..n |-> c]

RECURSIVE Pow10(_)
Pow10(k) == IF k = 0 THEN 1 ELSE 10 * Pow10(k - 1)

RECURSIVE Pow5(_)
Pow5(k) == IF k = 0 THEN 1 ELSE 5 * Pow5(k - 1)

\* value of a digit string (int() of an all-digit string)
RECURSIVE DigitsValue(_)
DigitsValue(d) ==
    IF d = <<>> THEN 0
    ELSE 10 * DigitsValue(SubSeq(d, 1, Len(d) - 1)) + DigitVal[d[Len(d)]]

RECURSIVE StripZeros(_)
StripZeros(d) == IF d # <<>> /\ Head(d) = "0" THEN StripZeros(Tail(d)) ELSE d

CountChar(s, c) == Cardinality({i \in 1..Len(s) : s[i] = c})

----------------------------------------------------------------------------
(* _parse_number, src/scraper.py:396-421 *)

\* re.sub(r'[^\d.]', '', text)
KeepDigitsAndDots(text) == SelectSeq(text, LAMBDA c : c \in Digits \cup {"."})

\* the suffix test of lines 404-412: <<multiplier as a power of ten, rest>>
SuffixSplit(text) ==
    IF EndsWith(text, <<"k">>) THEN [exp |-> 3, rest |-> SubSeq(text, 1, Len(text) - 1)]
    ELSE IF EndsWith(text, <<"m">>) THEN [exp |-> 6, rest |-> SubSeq(text, 1, Len(text) - 1)]
    ELSE IF EndsWith(text, <<"b">>) THEN [exp |-> 9, rest |-> SubSeq(text, 1, Len(text) - 1)]
    ELSE [exp |-> 0, rest |-> text]

\* the decimal exponent of the largest finite double (1.797...e308)
FloatMaxExp10 == 308

DotAt(s) == CHOOSE i \in 1..Len(s) : s[i] = "."
IntPart(s) == SubSeq(s, 1, DotAt(s) - 1)
FracPart(s) == SubSeq(s, DotAt(s) + 1, Len(s))

\* float(number_str) accepts digits with exactly one point and a digit
FloatLiteral(s) == CountChar(s, ".") = 1 /\ Len(s) >= 2

\* float(number_str) * multiplier is infinite once its integer part has more
\* than FloatMaxExp10 + 1 digits (it is then at least 10^309)
FloatTimesIsInf(s, exp) ==
    /\ StripZeros(IntPart(s)) # <<>>
    /\ Len(StripZeros(IntPart(s))) + exp > FloatMaxExp10 + 1

\* int(float(number_str) * multiplier) for a finite product: the decimal
\* point moves exp places to the right and the rest is cut off
PointMoved(fp, exp) ==
    IF Len(fp) >= exp THEN SubSeq(fp, 1, exp) ELSE fp \o Rep("0", exp - Len(fp))

FloatTimesTrunc(s, exp) ==
    DigitsValue(StripZeros(IntPart(s) \o PointMoved(FracPart(s), exp)))

\* lines 414-419: the conversion of what re.sub left, times 10^exp
Convert(number_str, exp) ==
    IF "." \in {number_str[i] : i \in 1..Len(number_str)}
    THEN IF ~FloatLiteral(number_str) THEN Returned(0)              \* ValueError
         ELSE IF FloatTimesIsInf(number_str, exp)
              THEN Raised("OverflowError")
              ELSE Returned(FloatTimesTrunc(number_str, exp))
    ELSE IF number_str = <<>> THEN Returned(0)                      \* ValueError
         ELSE Returned(DigitsValue(StripZeros(number_str)) * Pow10(exp))

\* lines 414-419 for the split text of lines 404-412
ConvertSplit(sp) == Convert(KeepDigitsAndDots(sp.rest), sp.exp)

parse_number(text0) == ConvertSplit(SuffixSplit(Lower(Strip(text0))))

----------------------------------------------------------------------------
(* Regular expressions (module re) as used by _extract_followers.  A regex *)
(* is a tree; Ends(re, s, i) is the sequence of positions at which a match *)
(* of re that starts at position i of s can end, in the order in which the *)
(* backtracking matcher tries them (greedy first).                         *)

Lit(text) == [op |-> "lit", text |-> text]
ILit(text) == [op |-> "ilit", text |-> text]          \* under (?i:...)
Cls(set) == [op |-> "cls", set |-> set]
NotCls(set) == [op |-> "ncls", set |-> set]
Cat(parts) == [op |-> "cat", parts |-> parts]
Alt(parts) == [op |-> "alt", parts |-> parts]
Star(r) == [op |-> "star", r |-> r]
Opt(r) == Alt(<<r, Cat(<<>>)>>)
Plus(r) == Cat(<<r, Star(r)>>)
WordBoundary == [op |-> "wb"]

IsWordChar(c) ==
    c \in Digits \cup DOMAIN ToLower \cup {ToLower[u] : u \in DOMAIN ToLower} \cup {"_"}

AtWordBoundary(s, i) ==
    (i > 1 /\ IsWordChar(s[i - 1])) # (i <= Len(s) /\ IsWordChar(s[i]))

RECURSIVE Ends(_, _, _)
RECURSIVE EndsFrom(_, _, _)

Ends(re, s, i) ==
    CASE re.op = "lit" ->
            IF StartsWithAt(s, i, re.text) THEN <<i + Len(re.text)>> ELSE <<>>
      [] re.op = "ilit" ->
            IF /\ i + Len(re.text) - 1 <= Len(s)
               /\ Lower(SubSeq(s, i, i + Len(re.text) - 1)) = Lower(re.text)
            THEN <<i + Len(re.text)>> ELSE <<>>
      [] re.op = "cls" ->
            IF i <= Len(s) /\ s[i] \in re.set THEN <<i + 1>> ELSE <<>>
      [] re.op = "ncls" ->
            IF i <= Len(s) /\ s[i] \notin re.set THEN <<i + 1>> ELSE <<>>
      [] re.op = "wb" ->
            IF AtWordBoundary(s, i) THEN <<i>> ELSE <<>>
      [] re.op = "cat" ->
            IF re.parts = <<>> THEN <<i>>
            ELSE EndsFrom(Cat(Tail(re.parts)), s, Ends(Head(re.parts), s, i))
      [] re.op = "alt" ->
            IF re.parts = <<>> THEN <<>>
            ELSE Ends(Head(re.parts), s, i) \o Ends(Alt(Tail(re.parts)), s, i)
      [] re.op = "star" ->
            EndsFrom(re, s, Ends(re.r, s, i)) \o <<i>>

EndsFrom(re, s, starts) ==
    IF starts = <<>> THEN <<>>
    ELSE Ends(re, s, Head(starts)) \o EndsFrom(re, s, Tail(starts))

\* A pattern with one capture group: pre (group) post.
Pattern(pre, cap, post) == [pre |-> pre, cap |-> cap, post |-> post]

NoMatch == [found |-> FALSE]

\* the first of the group's ends after which the rest of p matches
RECURSIVE FirstCompleting(_, _, _)
FirstCompleting(p, s, ends) ==
    IF ends = <<>> THEN <<>>
    ELSE IF Ends(p.post, s, Head(ends)) # <<>> THEN <<Head(ends)>>
    ELSE FirstCompleting(p, s, Tail(ends))

\* the match whose group is s[a .. e - 1]
GroupMatch(p, s, a, e) ==
    [found |-> TRUE, group |-> SubSeq(s, a, e - 1), end |-> Head(Ends(p.post, s, e))]

\* the first match whose group starts at one of starts, in the matcher's order
RECURSIVE MatchFrom(_, _, _)
RECURSIVE MatchOr(_, _, _, _, _)
MatchFrom(p, s, starts) ==
    IF starts = <<>> THEN NoMatch
    ELSE MatchOr(p, s, Head(starts),
                 FirstCompleting(p, s, Ends(p.cap, s, Head(starts))), Tail(starts))

MatchOr(p, s, a, completing, rest) ==
    IF completing # <<>> THEN GroupMatch(p, s, a, Head(completing))
    ELSE MatchFrom(p, s, rest)

\* the match of pattern p that starts at position i, if any
MatchAt(p, s, i) == MatchFrom(p, s, Ends(p.pre, s, i))

\* re.findall(pattern, s): the captured groups of the successive
\* non-overlapping matches, left to right
RECURSIVE FindAllFrom(_, _, _)
RECURSIVE FindAllWith(_, _, _, _)
FindAllFrom(p, s, i) ==
    IF i > Len(s) + 1 THEN <<>> ELSE FindAllWith(p, s, i, MatchAt(p, s, i))

\* the scan at position i, where the attempt at i gave m
FindAllWith(p, s, i, m) ==
    IF m.found
    THEN <<m.group>> \o FindAllFrom(p, s, IF m.end > i THEN m.end ELSE i + 1)
    ELSE FindAllFrom(p, s, i + 1)

FindAll(p, s) == FindAllFrom(p, s, 1)

----------------------------------------------------------------------------
(* _extract_followers, src/scraper.py:285-394.  A soup is a record; the    *)
(* fields read here are scripts (the text of each <script>, in document    *)
(* order), fsel (for each follower selector, the texts of the elements it  *)
(* selects, in document order) and text (soup.get_text()).                 *)

D == Cls(Digits)
S == Cls(Whitespace)
Empty == Cat(<<>>)
Quote == Cls({"\"", "'"})

\* \d+(?:,\d+)*
NumCommas == Cat(<<Plus(D), Star(Cat(<<Lit(<<",">>), Plus(D)>>))>>)

\* [Ff]ollowers?
Followers == Cat(<<Cls({"F", "f"}), Lit(<<"o", "l", "l", "o", "w", "e", "r">>), Opt(Lit(<<"s">>))>>)

\* (?i:followers?|following)
FollowWord == Alt(<<Cat(<<ILit(<<"f", "o", "l", "l", "o", "w", "e", "r">>), Opt(ILit(<<"s">>))>>), ILit(<<"f", "o", "l", "l", "o", "w", "i", "n", "g">>)>>)

\* \d+(?:,\d+)*|\d+(?:\.\d+)?[kmb]?
NumContext ==
    Alt(<<NumCommas,
          Cat(<<Plus(D), Opt(Cat(<<Lit(<<".">>), Plus(D)>>)), Opt(Cls({"k", "m", "b"}))>>)>>)

\* lines 299-306
follower_patterns == <<
    Pattern(Cat(<<Lit(<<"\"">>), Cls({"F", "f"}), Lit(<<"o", "l", "l", "o", "w", "e", "r", "s", "C", "o", "u", "n", "t", "\"", ":">>), Star(S)>>), Plus(D), Empty),
    Pattern(Cat(<<Lit(<<"\"">>), Cls({"F", "f"}), Lit(<<"o", "l", "l", "o", "w", "e", "r", "s", "\"", ":">>), Star(S)>>), Plus(D), Empty),
    Pattern(Cat(<<Lit(<<"\"">>), Cls({"F", "f"}), Lit(<<"o", "l", "l", "o", "w", "e", "r", "C", "o", "u", "n", "t", "\"", ":">>), Star(S)>>), Plus(D), Empty),
    Pattern(Cat(<<Lit(<<"f", "o", "l", "l", "o", "w", "e", "r", "s", "C", "o", "u", "n", "t">>), Quote, Lit(<<":">>), Star(S)>>), Plus(D), Empty),
    Pattern(Cat(<<Lit(<<"f", "o", "l", "l", "o", "w", "e", "r", "s">>), Quote, Lit(<<":">>), Star(S)>>), Plus(D), Empty),
    Pattern(Cat(<<Lit(<<"F", "o", "l", "l", "o", "w", "e", "r", "s", "C", "o", "u", "n", "t">>), Quote, Lit(<<":">>), Star(S)>>), Plus(D), Empty) >>

\* lines 338-344
text_patterns == <<
    Pattern(Empty, NumCommas, Cat(<<Star(S), Followers>>)),
    Pattern(Cat(<<Followers, Lit(<<":">>), Star(S)>>), NumCommas, Empty),
    Pattern(Empty, NumCommas, Cat(<<Star(S), Lit(<<"p", "e", "o", "p", "l", "e">>), Plus(S), Lit(<<"f", "o", "l", "l", "o", "w">>)>>)),
    Pattern(Empty, NumCommas,
            Cat(<<Star(S), Cls({"F", "f"}), Lit(<<"o", "l", "l", "o", "w", "i", "n", "g">>), Plus(S), Lit(<<"y", "o", "u">>)>>)),
    Pattern(Empty,
            Cat(<<Plus(D), Opt(Cat(<<Lit(<<".">>), Star(D)>>)),
                  Opt(Cls({"K", "k", "M", "m", "B", "b"}))>>),
            Cat(<<Star(S), Followers>>)) >>

\* lines 355-358
follower_context_patterns == <<
    Pattern(Cat(<<FollowWord, Star(NotCls(Digits))>>), NumContext, Empty),
    Pattern(Empty, NumContext, Cat(<<Star(NotCls(Digits)), FollowWord>>)) >>

\* lines 371-374
number_patterns == <<
    Pattern(WordBoundary,
            Cat(<<D, Opt(D), Opt(D), Plus(Cat(<<Lit(<<",">>), D, D, D>>))>>),
            WordBoundary),
    Pattern(WordBoundary,
            Cat(<<Plus(D), Opt(Cat(<<Lit(<<".">>), Plus(D)>>)),
                  Cls({"K", "k", "M", "m", "B", "b"})>>),
            WordBoundary) >>

\* upper end of the "reasonable range" of line 381
MaxReasonable == 100000000

\* what one strategy hands back
Nothing == [k |-> "nothing"]
Found(v) == [k |-> "found", v |-> v]
Failed == [k |-> "exception"]

\* "try this, and go on only if it handed back nothing"
OrElse(r, next) == IF r # Nothing THEN r ELSE next

\* lines 310-311: int(matches[0]) if there are matches
FirstInt(matches) ==
    IF matches # <<>> THEN Found(DigitsValue(matches[1])) ELSE Nothing

\* lines 308-311 for one script: the first pattern that matches decides
RECURSIVE ScriptPatterns(_, _)
ScriptPatterns(patterns, script_content) ==
    IF patterns = <<>> THEN Nothing
    ELSE OrElse(FirstInt(FindAll(Head(patterns), script_content)),
                ScriptPatterns(Tail(patterns), script_content))

\* one pattern tried on the scripts in document order
RECURSIVE ScriptsPattern(_, _)
ScriptsPattern(pattern, script_tags) ==
    IF script_tags = <<>> THEN Nothing
    ELSE OrElse(IF Head(script_tags) # <<>>
                THEN FirstInt(FindAll(pattern, Head(script_tags)))
                ELSE Nothing,
                ScriptsPattern(pattern, Tail(script_tags)))

\* the patterns in list order, each tried on every script
RECURSIVE PatternsThenScripts(_, _)
PatternsThenScripts(patterns, script_tags) ==
    IF patterns = <<>> THEN Nothing
    ELSE OrElse(ScriptsPattern(Head(patterns), script_tags),
                PatternsThenScripts(Tail(patterns), script_tags))

\* strategy 1 with the loops of lines 290 and 308 exchanged
ScriptStrategy_patternfirst(script_tags) ==
    PatternsThenScripts(follower_patterns, script_tags)

\* strategy 1, lines 289-311: the scripts in document order
RECURSIVE ScriptStrategy(_)
ScriptStrategy(script_tags) ==
    IF script_tags = <<>> THEN Nothing
    ELSE OrElse(IF Head(script_tags) # <<>>
                THEN ScriptPatterns(follower_patterns, Head(script_tags))
                ELSE Nothing,
                ScriptStrategy(Tail(script_tags)))

HasDigit(text) == \E i \in 1..Len(text) : text[i] \in Digits

\* "follower_count = self._parse_number(...); if follower_count >= 0:
\* return follower_count" (lines 332-334, 350-352, 364-366), r being what
\* _parse_number did and next the rest of the loop
CountOr(r, next) ==
    IF r.o = "raise" THEN Failed
    ELSE IF r.v >= 0 THEN Found(r.v)
    ELSE next

\* the loop "for match in matches" of lines 349-352 and 363-366
RECURSIVE FirstCount(_)
FirstCount(matches) ==
    IF matches = <<>> THEN Nothing
    ELSE CountOr(parse_number(Head(matches)), FirstCount(Tail(matches)))

\* lines 330-334 for one element, text being its stripped text
ElementCount(text, next) ==
    IF text # <<>> /\ HasDigit(text) THEN CountOr(parse_number(text), next)
    ELSE next

\* lines 329-334 for the elements of one selector
RECURSIVE ElementsCount(_)
ElementsCount(elements) ==
    IF elements = <<>> THEN Nothing
    ELSE ElementCount(Strip(Head(elements)), ElementsCount(Tail(elements)))

\* strategy 2, lines 327-334: selected[i] are the elements of selector i
RECURSIVE SelectorStrategy(_)
SelectorStrategy(selected) ==
    IF selected = <<>> THEN Nothing
    ELSE OrElse(ElementsCount(Head(selected)), SelectorStrategy(Tail(selected)))

\* strategies 3 and 4, lines 346-352 and 360-366
RECURSIVE PatternStrategy(_, _)
PatternStrategy(patterns, page_text) ==
    IF patterns = <<>> THEN Nothing
    ELSE OrElse(FirstCount(FindAll(Head(patterns), page_text)),
                PatternStrategy(Tail(patterns), page_text))

\* line 370
HeuristicGate(page_text) ==
    /\ Contains(Lower(page_text), <<"p", "r", "o", "f", "i", "l", "e">>)
    /\ Contains(Lower(page_text), <<"r", "o", "b", "l", "o", "x">>)

\* lines 379-382 for the matches of one pattern: the counts appended, and
\* whether _parse_number let an exception through
Candidate(r, rest) ==
    IF r.o = "raise" THEN [exception |-> TRUE, list |-> <<>>]
    ELSE IF 0 <= r.v /\ r.v <= MaxReasonable
         THEN [rest EXCEPT !.list = <<r.v>> \o @]
         ELSE rest

RECURSIVE Candidates(_)
Candidates(matches) ==
    IF matches = <<>> THEN [exception |-> FALSE, list |-> <<>>]
    ELSE Candidate(parse_number(Head(matches)), Candidates(Tail(matches)))

\* the candidates of the first pattern followed by those of the second
Extended(c1, c2) ==
    [exception |-> c1.exception \/ c2.exception, list |-> c1.list \o c2.list]

\* lines 376-382
potential_followers(page_text) ==
    Extended(Candidates(FindAll(number_patterns[1], page_text)),
             Candidates(FindAll(number_patterns[2], page_text)))

\* list.sort(reverse=True)
RECURSIVE InsertDesc(_, _)
InsertDesc(x, sorted) ==
    IF sorted = <<>> THEN <<x>>
    ELSE IF x >= Head(sorted) THEN <<x>> \o sorted
    ELSE <<Head(sorted)>> \o InsertDesc(x, Tail(sorted))

RECURSIVE SortDesc(_)
SortDesc(list) ==
    IF list = <<>> THEN <<>> ELSE InsertDesc(Head(list), SortDesc(Tail(list)))

\* list.sort(reverse=...)
Sorted(list, reverse) ==
    IF reverse THEN SortDesc(list)
    ELSE [i \in 1..Len(list) |-> SortDesc(list)[Len(list) + 1 - i]]

\* lines 384-388 for the candidates collected by lines 376-382
FirstSorted(cands, reverse) ==
    IF cands.exception THEN Failed
    ELSE IF cands.list # <<>> THEN Found(Sorted(cands.list, reverse)[1])
    ELSE Nothing

\* strategy 5 with the sort of line 387 ascending
HeuristicStrategy_smallest(page_text) ==
    FirstSorted(potential_followers(page_text), FALSE)

\* strategy 5, lines 370-388
HeuristicStrategy(page_text) ==
    FirstSorted(potential_followers(page_text), TRUE)

\* The outcome of _extract_followers: ret is the value returned (None or an
\* int), by the strategy that returned it (0: none did), heuristic whether
\* the body of strategy 5 (lines 371-388) ran.
FollowersOutcome(r, n, h) ==
    [ret |-> IF r.k = "found" THEN IntV(r.v) ELSE None,
     by |-> IF r.k = "found" THEN n ELSE 0,
     exception |-> r = Failed,
     heuristic |-> h]

\* the order of the strategies, r1..r4 being what the first four hand back
FirstStrategy(r1, r2, r3, r4, page_text) ==
    IF r1 # Nothing THEN FollowersOutcome(r1, 1, FALSE)
    ELSE IF r2 # Nothing THEN FollowersOutcome(r2, 2, FALSE)
    ELSE IF r3 # Nothing THEN FollowersOutcome(r3, 3, FALSE)
    ELSE IF r4 # Nothing THEN FollowersOutcome(r4, 4, FALSE)
    ELSE IF HeuristicGate(page_text)
         THEN FollowersOutcome(HeuristicStrategy(page_text), 5, TRUE)
    ELSE FollowersOutcome(Nothing, 0, FALSE)

extract_followers(soup) ==
    FirstStrategy(ScriptStrategy(soup.scripts),
                  SelectorStrategy(soup.fsel),
                  PatternStrategy(text_patterns, soup.text),
                  PatternStrategy(follower_context_patterns, soup.text),
                  soup.text)

----------------------------------------------------------------------------
(* _extract_username, src/scraper.py:212-283.  The fields of a soup read   *)
(* here are title (the text of <title>, or None), meta_desc and og_title   *)
(* (the content attribute of the meta tag, or None when there is no such   *)
(* tag), usel (for each username selector, the text of the first element   *)
(* it selects, or None) and h1 (the texts of the <h1> elements).           *)

\* str.replace(lit, ''): every occurrence, left to right
RECURSIVE Remove(_, _)
Remove(text, lit) ==
    IF text = <<>> THEN <<>>
    ELSE IF StartsWithAt(text, 1, lit)
         THEN Remove(SubSeq(text, Len(lit) + 1, Len(text)), lit)
         ELSE <<Head(text)>> \o Remove(Tail(text), lit)

\* str.split(lit)[0]
RECURSIVE BeforeFirst(_, _)
BeforeFirst(text, lit) ==
    IF text = <<>> \/ StartsWithAt(text, 1, lit) THEN <<>>
    ELSE <<Head(text)>> \o BeforeFirst(Tail(text), lit)

\* the length test of lines 222, 232, 244, 265 and 275
NameLimit == 50

\* "username and len(username) < 50"
Usable(uname) == uname # <<>> /\ Len(uname) < NameLimit

\* "if username and len(username) < 50: return username"
IfUsable(uname) == IF Usable(uname) THEN Found(uname) ELSE Nothing

RobloxSuffix == <<" ", "-", " ", "R", "o", "b", "l", "o", "x">>
MillionsPhrase == <<" ", "i", "s", " ", "o", "n", "e", " ", "o", "f", " ", "t", "h", "e", " ", "m", "i", "l", "l", "i", "o", "n", "s">>
ProfileSuffix == <<"'", "s", " ", "P", "r", "o", "f", "i", "l", "e">>

\* lines 216-223
TitleStrategy(soup) ==
    IF soup.title # None /\ Contains(Strip(soup.title.s), RobloxSuffix)
    THEN IfUsable(Strip(Remove(Strip(soup.title.s), RobloxSuffix)))
    ELSE Nothing

\* lines 227-233
MetaStrategy(soup) ==
    IF soup.meta_desc # None /\ Contains(soup.meta_desc.s, MillionsPhrase)
    THEN IfUsable(Strip(BeforeFirst(soup.meta_desc.s, MillionsPhrase)))
    ELSE Nothing

\* lines 239-245
OgTitleStrategy(soup) ==
    IF soup.og_title # None /\ Contains(soup.og_title.s, ProfileSuffix)
    THEN IfUsable(Strip(Remove(soup.og_title.s, ProfileSuffix)))
    ELSE Nothing

\* lines 260-268: elements[i] is select_one of selector i
RECURSIVE NameSelectorStrategy(_)
NameSelectorStrategy(elements) ==
    IF elements = <<>> THEN Nothing
    ELSE IF Head(elements) # None /\ Usable(Strip(Head(elements).s))
         THEN Found(Strip(Head(elements).s))
         ELSE NameSelectorStrategy(Tail(elements))

\* line 275
ExcludedWords == { <<"r", "o", "b", "l", "o", "x">>, <<"p", "r", "o", "f", "i", "l", "e">>, <<"e", "r", "r", "o", "r">>, <<"n", "o", "t", " ", "f", "o", "u", "n", "d">> }

\* lines 274-276 for one h1, text being its stripped text
Heading(text, next) ==
    IF /\ Usable(text)
       /\ ~\E word \in ExcludedWords : Contains(Lower(text), word)
    THEN Found(text)
    ELSE next

\* lines 272-276
RECURSIVE HeadingStrategy(_)
HeadingStrategy(h1_elements) ==
    IF h1_elements = <<>> THEN Nothing
    ELSE Heading(Strip(Head(h1_elements)), HeadingStrategy(Tail(h1_elements)))

Unknown == <<"U", "n", "k", "n", "o", "w", "n">>

\* the strategies with og:title tried before the title
UsernameStrategy_ogfirst(n, soup) ==
    CASE n = 1 -> OgTitleStrategy(soup)
      [] n = 2 -> MetaStrategy(soup)
      [] n = 3 -> TitleStrategy(soup)
      [] n = 4 -> NameSelectorStrategy(soup.usel)
      [] n = 5 -> HeadingStrategy(soup.h1)

\* the strategies in the order of the source
UsernameStrategy(n, soup) ==
    CASE n = 1 -> TitleStrategy(soup)
      [] n = 2 -> MetaStrategy(soup)
      [] n = 3 -> OgTitleStrategy(soup)
      [] n = 4 -> NameSelectorStrategy(soup.usel)
      [] n = 5 -> HeadingStrategy(soup.h1)

NumUsernameStrategies == 5

\* The outcome of _extract_username: ret is the string returned, by the
\* strategy that returned it (0: the default of line 280), ran the
\* strategies that were run, in order.
RECURSIVE UsernameFrom(_, _, _)
RECURSIVE UsernameWith(_, _, _, _)
UsernameFrom(n, soup, ran) ==
    IF n > NumUsernameStrategies
    THEN [ret |-> Unknown, by |-> 0, ran |-> ran]
    ELSE UsernameWith(UsernameStrategy(n, soup), n, soup, ran)

\* strategy n handed back r
UsernameWith(r, n, soup, ran) ==
    IF r # Nothing THEN [ret |-> r.v, by |-> n, ran |-> Append(ran, n)]
    ELSE UsernameFrom(n + 1, soup, Append(ran, n))

extract_username(soup) == UsernameFrom(1, soup, <<>>)

----------------------------------------------------------------------------
(* The outcome of one session.get: a transport failure or a response.  The *)
(* body of an API response is unparsable, a JSON array, or a JSON object   *)
(* whose members are Absent, None (null) or a value.                       *)

Timeout == [kind |-> "timeout"]              \* requests.exceptions.Timeout
ConnectionError == [kind |-> "connection"]   \* requests.exceptions.ConnectionError
OtherError == [kind |-> "other"]             \* any other exception of session.get
TransportFailures == {Timeout, ConnectionError, OtherError}

Response(status, body) == [kind |-> "response", status |-> status, body |-> body]

NotJson == [j |-> "invalid"]
JsonArray == [j |-> "array"]
UserJson(name, displayName) ==
    [j |-> "object", name |-> name, displayName |-> displayName]
CountJson(count) == [j |-> "object", count |-> count]

Is(o, status) == o.kind = "response" /\ o.status = status

\* Python truthiness of the values a username can take
Truthy(v) == v # None /\ v # StrV(<<>>) /\ v # IntV(0)

----------------------------------------------------------------------------
(* Structured lookup, src/scraper.py:82-129 *)

\* _get_username_from_api, lines 84-98
get_username_from_api(o) ==
    IF o.kind # "response" THEN None                         \* except, line 96
    ELSE IF o.status = 200
         THEN IF o.body.j # "object" THEN None              \* except, line 96
              ELSE IF o.body.name # Absent THEN o.body.name
              ELSE IF o.body.displayName # Absent THEN o.body.displayName
              ELSE None
         ELSE None

\* data.get('count', 0) of lines 108-109 and 119-120
CountOf(o) ==
    IF o.body.j # "object" THEN None                         \* except, line 127
    ELSE IF o.body.count # Absent THEN o.body.count
    ELSE IntV(0)

\* _get_followers_from_api up to its first response, lines 105-126
RateLimited(o) == Is(o, 429)

FollowersFirst(o) ==
    IF o.kind # "response" THEN None                         \* except, line 127
    ELSE IF o.status = 200 THEN CountOf(o)
    ELSE None

\* lines 117-123 without the status test of line 118
FollowersRetry_anystatus(o) ==
    IF o.kind # "response" THEN None ELSE CountOf(o)

\* _get_followers_from_api after the retry, lines 117-123
FollowersRetry(o) ==
    IF o.kind # "response" THEN None                         \* except, line 127
    ELSE IF o.status = 200 THEN CountOf(o)
    ELSE None

\* line 47 written as "if username and followers:"
LookupComplete_truthy(name, count) == Truthy(name) /\ Truthy(count)

\* line 47 written as "if username or followers is not None:"
LookupComplete_either(name, count) == Truthy(name) \/ count # None

\* line 47
LookupComplete(name, count) == Truthy(name) /\ count # None

----------------------------------------------------------------------------
(* LookupResult records: a key the dictionary lacks is Absent *)

Timestamp == [t |-> "timestamp"]         \* datetime.now().isoformat()

Success(uid, name, count) ==
    [success |-> TRUE, user_id |-> uid, username |-> name, followers |-> count,
     timestamp |-> Timestamp, error |-> Absent]

ErrorText(msg) == [t |-> "str", msg |-> msg]

Failure(uid, error) ==
    [success |-> FALSE, user_id |-> uid, username |-> Absent,
     followers |-> Absent, timestamp |-> Absent, error |-> ErrorText(error)]

FailureWithName(uid, error, name) ==
    [Failure(uid, error) EXCEPT !.username = name]

ErrTimeout == "Request timeout - Roblox servers may be slow"
ErrConnect == "Unable to connect to Roblox servers"
ErrNotFound == "User not found"
ErrExtract == "Could not extract follower count from profile page"
ErrScraping == "An unexpected error occurred during scraping"

\* f'HTTP error: {e.response.status_code}', line 201
ErrHttp(status) ==
    CASE status = 429 -> "HTTP error: 429"
      [] status = 500 -> "HTTP error: 500"
      [] OTHER -> "HTTP error"

\* response.raise_for_status(), line 140
RaisesForStatus(status) == 400 <= status /\ status < 600

\* lines 154-176: the result for the extracted name and count
Extracted(uid, name, count) ==
    IF count = None THEN FailureWithName(uid, ErrExtract, name)
    ELSE Success(uid, name, count)

\* _scrape_user_profile for the outcome o of its session.get, lines 133-210
scrape_user_profile(uid, o) ==
    IF o = Timeout THEN Failure(uid, ErrTimeout)
    ELSE IF o = ConnectionError THEN Failure(uid, ErrConnect)
    ELSE IF o.kind # "response" THEN Failure(uid, ErrScraping)
    ELSE IF RaisesForStatus(o.status)
         THEN IF o.status = 404 THEN Failure(uid, ErrNotFound)
              ELSE Failure(uid, ErrHttp(o.status))
    ELSE IF o.marker \/ o.status = 404 THEN Failure(uid, ErrNotFound)
    ELSE Extracted(uid, StrV(extract_username(o.soup).ret),
                   extract_followers(o.soup).ret)

----------------------------------------------------------------------------
(* Inputs of _parse_number *)

MaxTokLen == 3

TokChars == {"0", "1", "2", "5", ",", ".", "k", "M", "b", "a", " ", "-"}

OneLonger(shorter, chars) ==
    shorter \cup {Append(s, c) : s \in shorter, c \in chars}

RECURSIVE TextsUpTo(_, _)
TextsUpTo(chars, n) ==
    IF n = 0 THEN {<<>>} ELSE OneLonger(TextsUpTo(chars, n - 1), chars)

\* The tokens whose outcome the model's arithmetic represents exactly: the
\* value stays below 2^31, and a token with a decimal point has a fraction
\* that a binary double holds exactly (a multiple of 2^-f for f fraction
\* digits), or is too large for a double at all.
DigitsInModelRange(s, exp) ==
    IF CountChar(s, ".") = 0
    THEN Len(StripZeros(s)) + exp <= 9
    ELSE IF ~FloatLiteral(s) THEN TRUE
    ELSE \/ FloatTimesIsInf(s, exp)
         \/ /\ Len(StripZeros(IntPart(s))) + exp <= 9
            /\ Len(FracPart(s)) <= 9
            /\ DigitsValue(FracPart(s)) % Pow5(Len(FracPart(s))) = 0

SplitInModelRange(sp) == DigitsInModelRange(KeepDigitsAndDots(sp.rest), sp.exp)

InModelRange(text0) == SplitInModelRange(SuffixSplit(Lower(Strip(text0))))

ExampleTokens ==
    { <<"1", ",", "2", "3", "4">>, <<"2", ".", "5", "k">>, <<"3", "M">>,
      <<"a", "b", "c">>, <<"0">> }

LongTokens ==
    { Rep("9", FloatMaxExp10 + 2) \o <<".">>,
      Rep("9", FloatMaxExp10 - 3) \o <<".", "5", "m">>,
      Rep("9", FloatMaxExp10 - 6) \o <<".", "b">> }

Tokens ==
    {s \in TextsUpTo(TokChars, MaxTokLen) : InModelRange(s)}
        \cup ExampleTokens \cup LongTokens

----------------------------------------------------------------------------
(* Inputs of _extract_followers *)

MaxWords == 3

\* the phrases a page text is made of
Vocabulary ==
    { <<"R", "o", "b", "l", "o", "x">>, <<"p", "r", "o", "f", "i", "l", "e">>, <<"R", "O", "B", "L", "O", "X", " ", "P", "r", "o", "f", "i", "l", "e">>, <<"F", "o", "l", "l", "o", "w", "e", "r", "s">>, <<"f", "o", "l", "l", "o", "w", "e", "r", "s", ":">>, <<"f", "o", "l", "l", "o", "w", "i", "n", "g", " ", "y", "o", "u">>,
      <<"p", "e", "o", "p", "l", "e", " ", "f", "o", "l", "l", "o", "w">>, <<"1", "2">>, <<"1", ",", "2", "3", "4">>, <<"2", ".", "5", "k">>, <<"2", "5", "0", ",", "0", "0", "0", ",", "0", "0", "0">> }

OneMoreWord(shorter) ==
    shorter \cup {IF t = <<>> THEN w ELSE t \o <<" ">> \o w :
                     t \in shorter, w \in Vocabulary}

RECURSIVE PageTexts(_)
PageTexts(n) == IF n = 0 THEN {<<>>} ELSE OneMoreWord(PageTexts(n - 1))

NumFollowerSelectors == 10

NoElements == [i \in 1..NumFollowerSelectors |-> <<>>]

\* the scripts and the selected elements of a page
ScriptLists ==
    { <<>>,
      << <<"v", "a", "r", " ", "a", " ", "=", " ", "1", ";">>, <<>> >>,
      << <<"{", "\"", "f", "r", "i", "e", "n", "d", "s", "\"", ":", " ", "7", "}">>, <<"{", "\"", "f", "o", "l", "l", "o", "w", "e", "r", "s", "\"", ":", " ", "4", "2", "}">> >>,
      << <<"{", "'", "F", "o", "l", "l", "o", "w", "e", "r", "s", "C", "o", "u", "n", "t", "'", ":", " ", "9", ",", " ", "\"", "f", "o", "l", "l", "o", "w", "e", "r", "C", "o", "u", "n", "t", "\"", ":", " ", "8", "}">> >>,
      << <<"{", "\"", "f", "o", "l", "l", "o", "w", "e", "r", "s", "\"", ":", " ", "4", "2", "}">>,
         <<"{", "\"", "f", "o", "l", "l", "o", "w", "e", "r", "s", "C", "o", "u", "n", "t", "\"", ":", " ", "9", "}">> >> }

SelectedElements ==
    { NoElements,
      [NoElements EXCEPT ![3] = << <<"F", "o", "l", "l", "o", "w", "e", "r", "s">>, <<" ", "1", ",", "2", "3", "4", " ">> >>],
      [NoElements EXCEPT ![2] = << <<"n", "/", "a">> >>, ![10] = << <<"3", "M">>, <<"5">> >>],
      [NoElements EXCEPT ![1] = << Rep("9", FloatMaxExp10 + 2) \o <<".">> >>] }

FollowerSoups ==
    [scripts : {<<>>}, fsel : {NoElements}, text : PageTexts(MaxWords)]
        \cup [scripts : ScriptLists, fsel : SelectedElements, text : PageTexts(1)]

----------------------------------------------------------------------------
(* Inputs of _extract_username *)

NumNameSelectors == 7

NoneSelected == [i \in 1..NumNameSelectors |-> None]

Titles ==
    { None, StrV(<<"J", "a", "n", "e", " ", "-", " ", "R", "o", "b", "l", "o", "x">>), StrV(<<"R", "o", "b", "l", "o", "x">>), StrV(<<" ", "-", " ", "R", "o", "b", "l", "o", "x">>),
      StrV(<<" ", "B", "o", "b", " ", "-", " ", "R", "o", "b", "l", "o", "x", " ", "-", " ", "R", "o", "b", "l", "o", "x", " ">>), StrV(<<"U", "n", "k", "n", "o", "w", "n", " ", "-", " ", "R", "o", "b", "l", "o", "x">>),
      StrV(Rep("x", NameLimit - 1) \o RobloxSuffix),
      StrV(Rep("x", NameLimit) \o RobloxSuffix) }

MetaDescriptions ==
    { None, StrV(<<>>), StrV(<<"A", "n", "n", " ", "i", "s", " ", "o", "n", "e", " ", "o", "f", " ", "t", "h", "e", " ", "m", "i", "l", "l", "i", "o", "n", "s", " ", "p", "l", "a", "y", "i", "n", "g">>),
      StrV(<<" ", "i", "s", " ", "o", "n", "e", " ", "o", "f", " ", "t", "h", "e", " ", "m", "i", "l", "l", "i", "o", "n", "s">>), StrV(<<"P", "l", "a", "y", " ", "R", "o", "b", "l", "o", "x">>) }

OgTitles ==
    { None, StrV(<<"S", "o", "m", "e", "o", "n", "e", " ", "E", "l", "s", "e", "'", "s", " ", "P", "r", "o", "f", "i", "l", "e">>), StrV(<<"'", "s", " ", "P", "r", "o", "f", "i", "l", "e">>),
      StrV(<<"R", "o", "b", "l", "o", "x">>) }

NameElements ==
    { NoneSelected,
      [NoneSelected EXCEPT ![2] = StrV(<<" ", "S", "e", "l", " ">>)],
      [NoneSelected EXCEPT ![1] = StrV(<<>>), ![4] = StrV(Rep("y", NameLimit)),
                           ![7] = StrV(<<"D", "e", "e", "p">>)] }

Headings ==
    { <<>>, << <<"R", "o", "b", "l", "o", "x", " ", "P", "r", "o", "f", "i", "l", "e">>, <<" ", "H", "a", "n", "k", " ">> >>, << <<"E", "r", "r", "o", "r">>, <<>>, <<"P", "a", "g", "e", " ", "N", "o", "t", " ", "F", "o", "u", "n", "d">> >> }

UsernameSoups ==
    [title : Titles, meta_desc : MetaDescriptions, og_title : OgTitles,
     usel : NameElements, h1 : Headings]

----------------------------------------------------------------------------
(* Specification of _parse_number applied to one token *)

Idle == [o |-> "idle"]

ParseIdle == pn_text = Idle /\ pn_out = Idle
FollowersIdle == ef_soup = Idle /\ ef_out = Idle
UsernameIdle == eu_soup = Idle /\ eu_out = Idle
LookupIdle ==
    /\ pc = "unused" /\ user_id = 0 /\ username = Idle /\ followers = Idle
    /\ id_resp = Idle /\ fc_resp = Idle /\ retry_resp = Idle /\ page_resp = Idle
    /\ requests = <<>> /\ sleeps = 0 /\ result = Idle

InitParse ==
    /\ pn_text \in Tokens
    /\ pn_out = NotRun
    /\ FollowersIdle /\ UsernameIdle /\ LookupIdle

ParseNumber ==
    /\ pn_out = NotRun
    /\ pn_out' = parse_number(pn_text)
    /\ UNCHANGED <<pn_text, followers_vars, username_vars, lookup_vars>>

NextParse == ParseNumber

SpecParse == InitParse /\ [][NextParse]_vars

----------------------------------------------------------------------------
(* Specification of _extract_followers applied to one soup *)

InitFollowers ==
    /\ ef_soup \in FollowerSoups
    /\ ef_out = NotRun
    /\ ParseIdle /\ UsernameIdle /\ LookupIdle

ExtractFollowers ==
    /\ ef_out = NotRun
    /\ ef_out' = extract_followers(ef_soup)
    /\ UNCHANGED <<ef_soup, parse_vars, username_vars, lookup_vars>>

NextFollowers == ExtractFollowers

SpecFollowers == InitFollowers /\ [][NextFollowers]_vars

----------------------------------------------------------------------------
(* Specification of _extract_username applied to one soup *)

InitUsername ==
    /\ eu_soup \in UsernameSoups
    /\ eu_out = NotRun
    /\ ParseIdle /\ FollowersIdle /\ LookupIdle

ExtractUsername ==
    /\ eu_out = NotRun
    /\ eu_out' = extract_username(eu_soup)
    /\ UNCHANGED <<eu_soup, parse_vars, followers_vars, lookup_vars>>

NextUsername == ExtractUsername

SpecUsername == InitUsername /\ [][NextUsername]_vars

----------------------------------------------------------------------------
(* Inputs of get_user_followers *)

MaxUserId == 2

UserIds == 1..MaxUserId

Bob == <<"b", "o", "b">>
Bobby == <<"B", "o", "b", "b", "y">>

IdentityBodies ==
    {NotJson, JsonArray}
        \cup {UserJson(n, d) : n \in {Absent, None, StrV(<<>>), StrV(Bob)},
                               d \in {Absent, StrV(Bobby)}}

CountBodies ==
    {NotJson, JsonArray}
        \cup {CountJson(c) : c \in {Absent, None, IntV(0), IntV(7), IntV(-1),
                                    StrV(<<"1", "2">>)}}

ErrorStatuses == {404, 429, 500}

IdentityOutcomes ==
    TransportFailures
        \cup {Response(st, NotJson) : st \in ErrorStatuses}
        \cup {Response(200, b) : b \in IdentityBodies}

FollowerOutcomes ==
    TransportFailures
        \cup {Response(st, NotJson) : st \in ErrorStatuses}
        \cup {Response(429, CountJson(IntV(7)))}
        \cup {Response(200, b) : b \in CountBodies}

EmptySoup ==
    [title |-> None, meta_desc |-> None, og_title |-> None,
     usel |-> NoneSelected, h1 |-> <<>>,
     scripts |-> <<>>, fsel |-> NoElements, text |-> <<>>]

PageSoups ==
    { EmptySoup,
      [EmptySoup EXCEPT !.title = StrV(<<"J", "a", "n", "e", " ", "-", " ", "R", "o", "b", "l", "o", "x">>),
                        !.text = <<"J", "a", "n", "e", " ", "1", "2", " ", "F", "o", "l", "l", "o", "w", "e", "r", "s">>],
      [EmptySoup EXCEPT !.title = StrV(<<"J", "a", "n", "e", " ", "-", " ", "R", "o", "b", "l", "o", "x">>),
                        !.og_title = StrV(<<"S", "o", "m", "e", "o", "n", "e", " ", "E", "l", "s", "e", "'", "s", " ", "P", "r", "o", "f", "i", "l", "e">>),
                        !.text = <<"J", "a", "n", "e", " ", "R", "o", "b", "l", "o", "x">>],
      [EmptySoup EXCEPT !.h1 = << <<"H", "a", "n", "k">> >>,
                        !.text = <<"H", "a", "n", "k", " ", "R", "o", "b", "l", "o", "x", " ", "p", "r", "o", "f", "i", "l", "e", " ", "1", ",", "2", "3", "4", " ", "2", ".", "5", "k">>],
      [EmptySoup EXCEPT !.scripts = << <<"{", "\"", "f", "o", "l", "l", "o", "w", "e", "r", "s", "\"", ":", " ", "4", "2", "}">> >>],
      [EmptySoup EXCEPT !.title = StrV(<<"J", "a", "n", "e", " ", "-", " ", "R", "o", "b", "l", "o", "x">>),
                        !.fsel[1] = << Rep("9", FloatMaxExp10 + 2) \o <<".">> >>] }

\* the outcome of fetching a page: status, whether the body contains
\* "User not found", and the parsed document
Page(status, marker, soup) ==
    [kind |-> "response", status |-> status, marker |-> marker, soup |-> soup]

PageOutcomes ==
    TransportFailures
        \cup {Page(st, m, EmptySoup) : st \in ErrorStatuses, m \in BOOLEAN}
        \cup {Page(200, TRUE, EmptySoup)}
        \cup {Page(200, FALSE, soup) : soup \in PageSoups}

----------------------------------------------------------------------------
(* get_user_followers, src/scraper.py:32-80, one action for each stretch   *)
(* of code between two outbound calls                                      *)

NoResp == [kind |-> "none"]

Init ==
    /\ pc = "idle"
    /\ user_id = 0
    /\ username = None /\ followers = None
    /\ id_resp = NoResp /\ fc_resp = NoResp
    /\ retry_resp = NoResp /\ page_resp = NoResp
    /\ requests = <<>> /\ sleeps = 0
    /\ result = None
    /\ ParseIdle /\ FollowersIdle /\ UsernameIdle

Others == <<parse_vars, followers_vars, username_vars>>

\* the call: line 44 issues the identity request (line 86)
Call(uid) ==
    /\ pc = "idle"
    /\ user_id' = uid
    /\ requests' = Append(requests, "identity")
    /\ pc' = "identity"
    /\ UNCHANGED <<username, followers, id_resp, fc_resp, retry_resp,
                   page_resp, sleeps, result, Others>>

\* lines 86-98, then line 45 issues the follower-count request (line 105)
IdentityResponse(o) ==
    /\ pc = "identity"
    /\ id_resp' = o
    /\ username' = get_username_from_api(o)
    /\ requests' = Append(requests, "followers")
    /\ pc' = "followers"
    /\ UNCHANGED <<user_id, followers, fc_resp, retry_resp, page_resp,
                   sleeps, result, Others>>

\* lines 47-58 once followers is known: return, or issue the page fetch
Decide(count) ==
    /\ followers' = count
    /\ IF LookupComplete(username, count)
       THEN /\ result' = Success(user_id, username, count)
            /\ pc' = "done"
            /\ UNCHANGED requests
       ELSE /\ requests' = Append(requests, "profile")
            /\ pc' = "profile"
            /\ UNCHANGED result

\* lines 105-126: a 429 goes to sleep, anything else settles followers
FollowersResponse(o) ==
    /\ pc = "followers"
    /\ fc_resp' = o
    /\ IF RateLimited(o)
       THEN /\ pc' = "sleep"
            /\ UNCHANGED <<followers, requests, result>>
       ELSE Decide(FollowersFirst(o))
    /\ UNCHANGED <<user_id, username, id_resp, retry_resp, page_resp, sleeps,
                   Others>>

\* lines 115-117: time.sleep(2), then the second request
Sleep ==
    /\ pc = "sleep"
    /\ sleeps' = sleeps + 1
    /\ requests' = Append(requests, "followers")
    /\ pc' = "retry"
    /\ UNCHANGED <<user_id, username, followers, id_resp, fc_resp, retry_resp,
                   page_resp, result, Others>>

\* lines 117-123 with a second 429 answered by one more sleep and retry
RetryResponse_twice(o) ==
    /\ pc = "retry"
    /\ retry_resp' = o
    /\ IF RateLimited(o) /\ sleeps < 2
       THEN /\ pc' = "sleep"
            /\ UNCHANGED <<followers, requests, result>>
       ELSE Decide(FollowersRetry(o))
    /\ UNCHANGED <<user_id, username, id_resp, fc_resp, page_resp, sleeps,
                   Others>>

\* lines 117-123
RetryResponse(o) ==
    /\ pc = "retry"
    /\ retry_resp' = o
    /\ Decide(FollowersRetry(o))
    /\ UNCHANGED <<user_id, username, id_resp, fc_resp, page_resp, sleeps,
                   Others>>

\* line 58: _scrape_user_profile, lines 139-210
ProfileResponse(o) ==
    /\ pc = "profile"
    /\ page_resp' = o
    /\ result' = scrape_user_profile(user_id, o)
    /\ pc' = "done"
    /\ UNCHANGED <<user_id, username, followers, id_resp, fc_resp, retry_resp,
                   requests, sleeps, Others>>

Next ==
    \/ \E uid \in UserIds : Call(uid)
    \/ \E o \in IdentityOutcomes : IdentityResponse(o)
    \/ \E o \in FollowerOutcomes : FollowersResponse(o)
    \/ Sleep
    \/ \E o \in FollowerOutcomes : RetryResponse(o)
    \/ \E o \in PageOutcomes : ProfileResponse(o)

Spec == Init /\ [][Next]_vars

\* the steps of a lookup that has been called: every session.get is made
\* with timeout=10 (lines 86, 105, 117, 139) and so returns or raises, and
\* time.sleep(2) (line 115) returns
Progress ==
    \/ \E o \in IdentityOutcomes : IdentityResponse(o)
    \/ \E o \in FollowerOutcomes : FollowersResponse(o)
    \/ Sleep
    \/ \E o \in FollowerOutcomes : RetryResponse(o)
    \/ \E o \in PageOutcomes : ProfileResponse(o)

SpecLive == Spec /\ WF_vars(Progress)

----------------------------------------------------------------------------
(* Properties of get_user_followers (specification Spec) *)

Requested(kind) == \E i \in 1..Len(requests) : requests[i] = kind
Reqs(kind) == Cardinality({i \in 1..Len(requests) : requests[i] = kind})

IsTransportFailure(o) == o \in {Timeout, ConnectionError}

\* the username a 200 identity body provides: name, else displayName
ProvidedName(body) == IF body.name # Absent THEN body.name ELSE body.displayName

\* C1 as stated: whenever the identity call and the follower-count call both
\* answer 200 with valid JSON, the record returned has success=true and a
\* timestamp, and no profile page was fetched.
C1_Original ==
    ( /\ pc = "done"
      /\ Is(id_resp, 200) /\ id_resp.body.j # "invalid"
      /\ Is(fc_resp, 200) /\ fc_resp.body.j # "invalid" )
    => /\ result.success
       /\ result.timestamp # Absent
       /\ ~Requested("profile")

\* the case of C1 in which the two bodies provide a username and a count
C1_Provided ==
    /\ Is(id_resp, 200) /\ id_resp.body.j = "object"
    /\ ProvidedName(id_resp.body) # Absent /\ Truthy(ProvidedName(id_resp.body))
    /\ Is(fc_resp, 200) /\ fc_resp.body.j = "object"
    /\ fc_resp.body.count # None

\* C1 (amended): whenever the identity call answers 200 with a JSON object
\* that provides a non-empty username (its name, or its displayName when it
\* has no name) and the follower-count call answers 200 with a JSON object
\* whose count is not null, the record returned has success=true, carries
\* that username and that count (0 when the object has no count), has a
\* timestamp, and no profile page was fetched.
C1_ApiSuccess ==
    (pc = "done" /\ C1_Provided)
    => /\ result.success
       /\ result.user_id = user_id
       /\ result.username = ProvidedName(id_resp.body)
       /\ result.followers = IF fc_resp.body.count = Absent THEN IntV(0)
                             ELSE fc_resp.body.count
       /\ result.timestamp # Absent
       /\ ~Requested("profile")

C1_Witness ==
    /\ pc = "done" /\ C1_Provided
    /\ id_resp.body.name = Absent
    /\ fc_resp.body.count = IntV(0)
    /\ result.success

\* C2: the profile page is requested if and only if the structured lookup
\* did not obtain both a username and a follower count, it is requested only
\* after both structured calls (and the retry, if any) have been answered,
\* and it is the last request; an identity 404 with a follower-count 200
\* leads to the profile request.
C2_FallbackIffIncomplete ==
    /\ pc \in {"profile", "done"}
          => (Requested("profile") <=> ~(Truthy(username) /\ followers # None))
    /\ pc \notin {"profile", "done"} => ~Requested("profile")
    /\ Requested("profile")
          => /\ id_resp # NoResp /\ fc_resp # NoResp
             /\ RateLimited(fc_resp) => retry_resp # NoResp
             /\ requests[Len(requests)] = "profile"
             /\ Reqs("profile") = 1
             /\ result = None \/ pc = "done"
    /\ (pc \in {"profile", "done"} /\ Is(id_resp, 404) /\ Is(fc_resp, 200))
          => Requested("profile")

C2_Witness ==
    /\ pc = "done"
    /\ Is(id_resp, 404) /\ Is(fc_resp, 200) /\ followers = IntV(7)
    /\ Requested("profile") /\ page_resp # NoResp

\* C3: a 429 from the follower-count endpoint is followed by exactly one
\* sleep and exactly one retry; a 200 retry yields the count its body carries
\* (0 for an object without count, none when the body carries none), any
\* other retry outcome, a second 429 included, yields no count; without a
\* 429 there is no sleep and no retry; the endpoint is never requested more
\* than twice.
C3_RetryOnce ==
    /\ Reqs("followers") <= 2 /\ sleeps <= 1
    /\ RateLimited(fc_resp)
          => \/ pc = "sleep" /\ sleeps = 0 /\ Reqs("followers") = 1
             \/ pc # "sleep" /\ sleeps = 1 /\ Reqs("followers") = 2
    /\ ~RateLimited(fc_resp)
          => sleeps = 0 /\ Reqs("followers") <= 1 /\ retry_resp = NoResp
    /\ retry_resp # NoResp
          => /\ RateLimited(fc_resp)
             /\ (Is(retry_resp, 200) /\ retry_resp.body.j = "object")
                   => followers = IF retry_resp.body.count = Absent THEN IntV(0)
                                  ELSE retry_resp.body.count
             /\ (Is(retry_resp, 200) /\ retry_resp.body.j # "object")
                   => followers = None
             /\ ~Is(retry_resp, 200) => followers = None

C3_Witness ==
    /\ RateLimited(fc_resp)
    /\ Is(retry_resp, 200) /\ retry_resp.body.j = "object"
    /\ followers = IntV(7)
    /\ sleeps = 1 /\ Reqs("followers") = 2

\* C4: a timeout or connection failure of a structured-lookup call (identity,
\* follower count or its retry) is terminal: the record returned is a failure
\* with the timeout or unable-to-connect error and no profile page is
\* requested.
C4_TransportTerminal ==
    ( \/ IsTransportFailure(id_resp)
      \/ IsTransportFailure(fc_resp)
      \/ IsTransportFailure(retry_resp) )
    => /\ ~Requested("profile")
       /\ pc = "done" => /\ ~result.success
                         /\ result.error \in {ErrorText(ErrTimeout), ErrorText(ErrConnect)}

\* C5: whenever the profile page fetched has a body containing "User not
\* found", whatever its status code, the record returned is a failure with
\* error exactly "User not found".
C5_MarkerNotFound ==
    (page_resp.kind = "response" /\ page_resp.marker)
    => result = Failure(user_id, ErrNotFound)

\* C6: every record returned satisfies the LookupResult invariant: success
\* implies followers a non-negative integer and a timestamp, failure implies
\* an error.
C6_ResultInvariant ==
    pc = "done"
    => /\ result.success
             => /\ result.followers.t = "int"
                /\ result.followers.i >= 0
                /\ result.timestamp # Absent
       /\ ~result.success => result.error # Absent

\* the profile page was parsed and _extract_username ran on it
PageExtracted ==
    /\ page_resp.kind = "response"
    /\ ~RaisesForStatus(page_resp.status)
    /\ ~page_resp.marker

\* C7: a failed record carries the username that was obtained: the one of
\* the identity call when there is one, and some username whenever the page
\* was parsed.
C7_PartialPreserved ==
    (pc = "done" /\ ~result.success)
    => /\ Truthy(username) => result.username = username
       /\ PageExtracted => result.username # Absent

\* the outbound calls that have returned or raised
Answered ==
    Cardinality({r \in {"id", "fc", "retry", "page"} :
                   CASE r = "id" -> id_resp # NoResp
                     [] r = "fc" -> fc_resp # NoResp
                     [] r = "retry" -> retry_resp # NoResp
                     [] r = "page" -> page_resp # NoResp})

\* the lookup waits for the answer of an outbound call
Waiting == pc \in {"identity", "followers", "retry", "profile"}

\* the place of a request in the order identity, follower count, profile
Rank(kind) ==
    CASE kind = "identity" -> 1 [] kind = "followers" -> 2 [] kind = "profile" -> 3

\* the safety part of C12, in every state of a lookup
C12_Budget ==
    /\ Len(requests) <= 4
    /\ Reqs("identity") <= 1 /\ Reqs("followers") <= 2 /\ Reqs("profile") <= 1
    /\ sleeps <= 1
    /\ Len(requests) = Answered + (IF Waiting THEN 1 ELSE 0)
    /\ \A i, j \in 1..Len(requests) : i < j => Rank(requests[i]) <= Rank(requests[j])
    /\ pc = "done" <=> result # None
    /\ pc = "done"
          => /\ result.success \in BOOLEAN
             /\ result.user_id = user_id
             /\ ~result.success => result.error # Absent

\* C12: every call of get_user_followers runs to completion and returns a
\* record, whatever each outbound call does; the outbound calls are made one
\* after the other, each after the one before it was answered, in the order
\* identity, follower count, profile page; one lookup makes at most four of
\* them (at most one identity, two follower-count, one profile-page request)
\* and sleeps at most once.
C12_CompletesWithinBudget ==
    /\ []C12_Budget
    /\ (pc # "idle") ~> (pc = "done")

\* the longest lookup: four requests and one sleep, every call failing
C12_Witness ==
    /\ pc = "done"
    /\ requests = <<"identity", "followers", "followers", "profile">>
    /\ sleeps = 1
    /\ id_resp = Timeout /\ RateLimited(fc_resp) /\ RateLimited(retry_resp)
    /\ page_resp = ConnectionError
    /\ result = Failure(user_id, ErrConnect)

----------------------------------------------------------------------------
(* Properties of _parse_number (specification SpecParse) *)

\* C8: _parse_number never raises and returns a non-negative integer; in
\* particular "1,234" gives 1234, "2.5k" 2500, "3M" 3000000, "abc" 0 and
\* "0" 0.
C8_ParseTotal ==
    pn_out # NotRun
    => /\ pn_out.o = "return"
       /\ pn_out.v >= 0
       /\ pn_text = <<"1", ",", "2", "3", "4">> => pn_out.v = 1234
       /\ pn_text = <<"2", ".", "5", "k">> => pn_out.v = 2500
       /\ pn_text = <<"3", "M">> => pn_out.v = 3000000
       /\ pn_text = <<"a", "b", "c">> => pn_out.v = 0
       /\ pn_text = <<"0">> => pn_out.v = 0

----------------------------------------------------------------------------
(* Properties of _extract_username (specification SpecUsername) *)

\* what the five strategies yield, in the order title, meta description,
\* og:title, selector list, heading
Yields(soup) ==
    << TitleStrategy(soup), MetaStrategy(soup), OgTitleStrategy(soup),
       NameSelectorStrategy(soup.usel), HeadingStrategy(soup.h1) >>

Yielding(soup) == {n \in 1..5 : Yields(soup)[n] # Nothing}

\* C9 as stated, its last part: _extract_username returns "Unknown" exactly
\* when no strategy yields a non-empty string shorter than 50 characters.
C9_Original ==
    eu_out # NotRun => (eu_out.ret = Unknown <=> Yielding(eu_soup) = {})

\* C9 (amended): _extract_username returns what the first strategy, in the
\* order title, meta description, og:title, selector list, heading, that
\* yields a non-empty string shorter than 50 characters yields, and runs no
\* later strategy; it falls through to the default "Unknown" of line 280
\* exactly when no strategy yields one, and that default is then what it
\* returns; title "Jane - Roblox" with og:title "Someone Else's Profile"
\* gives "Jane".
C9_FirstStrategyWins ==
    eu_out # NotRun
    => LET ys == Yielding(eu_soup)
       IN  /\ ys = {} <=> eu_out.by = 0
           /\ ys = {} => eu_out.ret = Unknown /\ eu_out.ran = <<1, 2, 3, 4, 5>>
           /\ ys # {}
                 => LET m == CHOOSE n \in ys : \A k \in ys : n <= k
                    IN  /\ eu_out.by = m
                        /\ eu_out.ret = Yields(eu_soup)[m].v
                        /\ eu_out.ran = [i \in 1..m |-> i]
                        /\ eu_out.ret # <<>> /\ Len(eu_out.ret) < 50
           /\ ( /\ eu_soup.title = StrV(<<"J", "a", "n", "e", " ", "-", " ", "R", "o", "b", "l", "o", "x">>)
                /\ eu_soup.og_title = StrV(<<"S", "o", "m", "e", "o", "n", "e", " ", "E", "l", "s", "e", "'", "s", " ", "P", "r", "o", "f", "i", "l", "e">>) )
                 => eu_out.ret = <<"J", "a", "n", "e">>

C9_Witness ==
    /\ eu_out # NotRun
    /\ eu_soup.title = StrV(<<"J", "a", "n", "e", " ", "-", " ", "R", "o", "b", "l", "o", "x">>)
    /\ eu_soup.og_title = StrV(<<"S", "o", "m", "e", "o", "n", "e", " ", "E", "l", "s", "e", "'", "s", " ", "P", "r", "o", "f", "i", "l", "e">>)
    /\ eu_out.ret = <<"J", "a", "n", "e">> /\ eu_out.ran = <<1>>

----------------------------------------------------------------------------
(* Properties of _extract_followers (specification SpecFollowers) *)

\* C10: the body of strategy 5 runs only when strategies 1 to 4 produced
\* nothing and the page text contains both "profile" and "roblox" in any
\* case; a value it returns lies within [0, 100000000] and is the largest
\* candidate; when no candidate qualifies the extractor returns None.
C10_HeuristicLastResort ==
    ef_out # NotRun
    => LET text == ef_soup.text
           cands == potential_followers(text)
       IN  /\ ef_out.heuristic
                 => /\ ScriptStrategy(ef_soup.scripts) = Nothing
                    /\ SelectorStrategy(ef_soup.fsel) = Nothing
                    /\ PatternStrategy(text_patterns, text) = Nothing
                    /\ PatternStrategy(follower_context_patterns, text) = Nothing
                    /\ Contains(Lower(text), <<"p", "r", "o", "f", "i", "l", "e">>)
                    /\ Contains(Lower(text), <<"r", "o", "b", "l", "o", "x">>)
           /\ ef_out.by = 5
                 => /\ ef_out.heuristic
                    /\ 0 <= ef_out.ret.i /\ ef_out.ret.i <= 100000000
                    /\ \E i \in 1..Len(cands.list) : cands.list[i] = ef_out.ret.i
                    /\ \A i \in 1..Len(cands.list) : cands.list[i] <= ef_out.ret.i
           /\ (ef_out.heuristic /\ cands.list = <<>>) => ef_out.ret = None

C10_Witness ==
    /\ ef_out # NotRun
    /\ ef_out.by = 5
    /\ Len(potential_followers(ef_soup.text).list) = 2
    /\ ef_out.ret = IntV(2500)

\* the first match of pattern k in script i, as line 311 converts it
ScriptMatch(scripts, i, k) ==
    DigitsValue(FindAll(follower_patterns[k], scripts[i])[1])

\* the patterns that match script i
MatchingPatterns(scripts, i) ==
    {k \in 1..Len(follower_patterns) : FindAll(follower_patterns[k], scripts[i]) # <<>>}

\* the scripts that some pattern matches
MatchingScripts(scripts) ==
    {i \in 1..Len(scripts) : MatchingPatterns(scripts, i) # {}}

\* C11 as stated: strategy 1 returns the first match in pattern-then-script
\* order: the match of the earliest pattern of the list that matches any
\* script (in the first script it matches) is the one returned.
C11_Original ==
    (ef_out # NotRun /\ MatchingScripts(ef_soup.scripts) # {})
    => ef_out.ret = IntV(ScriptStrategy_patternfirst(ef_soup.scripts).v)

\* C11 (amended): strategy 1 returns the first match in script-then-pattern
\* order: it decides exactly when some pattern matches some script, and then
\* returns the first match of the earliest pattern of the list that matches
\* the first script, in document order, that any pattern matches; when two
\* scripts match different patterns, the match in the earlier script is the
\* one returned.
C11_ScriptThenPattern ==
    ef_out # NotRun
    => LET scripts == ef_soup.scripts
           ms == MatchingScripts(scripts)
       IN  /\ ef_out.by = 1 <=> ms # {}
           /\ ms # {}
                 => LET i == CHOOSE x \in ms : \A y \in ms : x <= y
                        ks == MatchingPatterns(scripts, i)
                        k == CHOOSE x \in ks : \A y \in ks : x <= y
                    IN  ef_out.ret = IntV(ScriptMatch(scripts, i, k))

\* two scripts match different patterns, the later script the earlier pattern
C11_Witness ==
    /\ ef_out # NotRun
    /\ Len(ef_soup.scripts) = 2
    /\ 1 \notin MatchingPatterns(ef_soup.scripts, 1)
    /\ 2 \in MatchingPatterns(ef_soup.scripts, 1)
    /\ 1 \in MatchingPatterns(ef_soup.scripts, 2)
    /\ ef_out.by = 1
    /\ ef_out.ret = IntV(42)

====
